---- MODULE Spec2Model ----
(***************************************************************************)
(* The ad-break scheduler (AdsController) of playkit-js and the event      *)
(* binding registry (EventManager) it subscribes through.                  *)
(*                                                                         *)
(* Two specifications share the variables:                                 *)
(*   SpecEM - the registry driven by arbitrary listen / unlisten /         *)
(*            removeAll / destroy calls;                                   *)
(*   Spec   - the scheduler driven by the player's notifications.          *)
(***************************************************************************)
EXTENDS Integers, Sequences, FiniteSets

VARIABLES
  \* ---- EventManager (src/unnamed/part_000) ----
  bindingMap,      \* EventManager._bindingMap: [isNull, map]
  addCalls,        \* calls of addEventListener seen by the sources, per <<target, type, listener>>
  removeCalls,     \* calls of removeEventListener seen by the sources, per <<target, type, listener>>
  nListens,        \* number of Binding_ objects constructed (their identity)
  lastCall,        \* the registry call made last (SpecEM)
  \* ---- AdsController (src/src/ads/ads-controller.js) ----
  config,          \* this._player.config (advertising.adBreaks, playAdsAfterTime, playback.startTime)
  controllers,     \* this._adsPluginControllers: sequence of [name]
  done,            \* controller.done of each plugin controller
  currentTime,     \* this._player.currentTime
  paused,          \* this._player.paused
  allAdsCompleted, \* this._allAdsCompleted
  adBreaksLayout,  \* this._adBreaksLayout
  adBreak,         \* this._adBreak
  ad,              \* this._ad
  adPlayed,        \* this._adPlayed
  snapback,        \* this._snapback
  configAdBreaks,  \* this._configAdBreaks: sequence of [position, played]
  adIsLoading,     \* this._adIsLoading
  chains,          \* the promise chains started by _onEnded that still wait: the stage of each
  reported,        \* positions carried by the manifest-loaded notifications since _initMembers
  dispatched,      \* per configured break: calls of _playAdBreak with it since _init
  commanded,       \* per configured break: calls of adController.playAdNow with its ads since _init
  seekedTo         \* SpecSeek: player.currentTime at the last SEEKED, -1 before the first

emVars == <<bindingMap, addCalls, removeCalls, nListens, lastCall>>

playerVars == <<config, controllers, done, currentTime, paused>>

adsVars == <<allAdsCompleted, adBreaksLayout, adBreak, ad, adPlayed, snapback,
             configAdBreaks, adIsLoading, chains, reported, dispatched, commanded>>

vars == <<emVars, playerVars, adsVars, seekedTo>>

\* ---------------------------------------------------------------- bounds

\* Registry calls of listen explored by SpecEM.
MaxListens == 3

\* player.currentTime ranges over 0 .. MaxTick.
MaxTick == 3

\* Promise chains of _onEnded that may be pending at once.
MaxChains == 1

\* The per-break counts of dispatches and commands saturate at MaxCount.
MaxCount == 2

\* ---------------------------------------------------------------- helpers

Null == "null"

Min(a, b) == IF a < b THEN a ELSE b

RECURSIVE SeqSum(_)
SeqSum(s) == IF s = <<>> THEN 0 ELSE Head(s) + SeqSum(Tail(s))

\* Number of elements of sequence s satisfying Test.
CountSeq(s, Test(_)) == Len(SelectSeq(s, Test))

\* ---------------------------------------------------------------- MultiMap

\* MultiMap: a map from a key to an ordered list of values (insertion order kept).
MultiMap_new == <<>>

MultiMap_get(map, key) == IF key \in DOMAIN map THEN map[key] ELSE <<>>

MultiMap_push(map, key, value) ==
  [k \in (DOMAIN map) \cup {key} |->
     IF k = key THEN Append(MultiMap_get(map, key), value) ELSE map[k]]

\* Removes every occurrence of the value (compared by identity) from the key's list.
MultiMap_remove(map, key, value) ==
  IF key \notin DOMAIN map THEN map
  ELSE [map EXCEPT ![key] = SelectSeq(@, LAMBDA b : b.id # value.id)]

\* All values of the map, as a set (their order is not observed).
MultiMap_getAll(map) == UNION {{map[k][i] : i \in DOMAIN map[k]} : k \in DOMAIN map}

MultiMap_clear(map) == <<>>

\* ---------------------------------------------------------------- EventManager

Targets == {"t1", "t2"}

Types == {"e1", "e2"}

Listeners == {"l1", "l2"}

Triples == Targets \X Types \X Listeners

\* Binding_ constructor: the fields of the new binding.
Binding_new(id, target, type, listener) ==
  [id |-> id, target |-> target, type |-> type, listener |-> listener]

\* Binding_.unlisten: TRUE when it calls target.removeEventListener.
Binding_detaches(binding) == binding.target # Null

\* Binding_.unlisten: the binding afterwards.
Binding_unlisten(binding) ==
  IF ~Binding_detaches(binding) THEN binding
  ELSE [binding EXCEPT !.target = Null, !.listener = Null]

\* EventManager constructor.
EM_new == [isNull |-> FALSE, map |-> MultiMap_new]

\* EventManager.listen: the new _bindingMap (the Binding_ is constructed first).
EM_listen(em, binding) ==
  IF ~em.isNull THEN [em EXCEPT !.map = MultiMap_push(em.map, binding.type, binding)]
  ELSE em

\* EventManager.listen: TRUE when the call reaches target.addEventListener
\* (new Binding_ runs before _bindingMap is looked at).
EM_listenAttaches(em) == TRUE

\* EventManager.unlisten: the bindings of the list the loop calls unlisten on.
EM_unlistenMatchesFirstOnly(em, target, type) ==
  IF em.isNull THEN <<>>
  ELSE LET m == SelectSeq(MultiMap_get(em.map, type), LAMBDA b : b.target = target)
       IN  IF m = <<>> THEN <<>> ELSE <<Head(m)>>

EM_unlistenMatches(em, target, type) ==
  IF em.isNull THEN <<>>
  ELSE SelectSeq(MultiMap_get(em.map, type), LAMBDA b : b.target = target)

RECURSIVE RemoveEach(_, _, _)
RemoveEach(map, type, bs) ==
  IF bs = <<>> THEN map
  ELSE RemoveEach(MultiMap_remove(map, type, Head(bs)), type, Tail(bs))

\* EventManager.unlisten: the new _bindingMap.
EM_unlisten(em, target, type) ==
  IF em.isNull THEN em
  ELSE [em EXCEPT !.map = RemoveEach(em.map, type, EM_unlistenMatches(em, target, type))]

\* EventManager.removeAll: the bindings the loop calls unlisten on.
EM_removeAllSkipsDetach(em) == {}

EM_removeAllBindings(em) == IF em.isNull THEN {} ELSE MultiMap_getAll(em.map)

\* EventManager.removeAll: the new _bindingMap.
EM_removeAllKeepsMap(em) == em

EM_removeAll(em) == IF em.isNull THEN em ELSE [em EXCEPT !.map = MultiMap_clear(em.map)]

\* EventManager.destroy: the new _bindingMap.
EM_destroy(em) == [EM_removeAll(em) EXCEPT !.isNull = TRUE]

\* The removeEventListener calls made when Binding_.unlisten runs on each binding of bs.
DetachCalls(bs) ==
  [tr \in Triples |->
     Cardinality({b \in bs : Binding_detaches(b) /\ <<b.target, b.type, b.listener>> = tr})]

SeqToSet(s) == {s[i] : i \in DOMAIN s}

\* Number of bindings the registry holds.
NumBindings(em) == IF em.isNull THEN 0 ELSE Cardinality(MultiMap_getAll(em.map))

\* ---------------------------------------------------------------- player configuration

\* A number that may be undefined is a sequence of at most one integer.
Undefined == <<>>

Num(n) == <<n>>

\* JavaScript truthiness of a number or undefined.
Truthy(x) == x # Undefined /\ x[1] # 0

\* JavaScript a || b.
OrElse(a, b) == IF Truthy(a) THEN a ELSE b

\* JavaScript p <= x for a number p (false when x is undefined).
LessEqOpt(p, x) == x # Undefined /\ p <= x[1]

\* One entry of config.advertising.adBreaks.
B(p) == [position |-> p, numeric |-> TRUE, ads |-> 1]

\* An entry whose position is not a number, and one with no ads.
NonNumeric == [position |-> 0, numeric |-> FALSE, ads |-> 1]

NoAds(p) == [position |-> p, numeric |-> TRUE, ads |-> 0]

Cfg(breaks, paat, st) == [adBreaks |-> breaks, playAdsAfterTime |-> paat, startTime |-> st]

Bumper == [name |-> "bumper"]

Ima == [name |-> "ima"]

\* Positions and times are in units of five seconds (the break at 15 s is B(3)).
\* preroll (skipped: playback starts past it), a midroll, a postroll, two entries
\* the filter drops
CfgPrePlayed == Cfg(<<B(2), B(0), NonNumeric, B(-1), NoAds(1)>>, Num(1), Num(3))

\* three midrolls; playAdsAfterTime is 0, so playback.startTime decides
CfgMidrolls == Cfg(<<B(1), B(2), B(3)>>, Num(0), Num(-1))

\* a preroll to play and two breaks at one position, given out of order
CfgPreroll == Cfg(<<B(2), B(0), B(2)>>, Num(0), Undefined)

\* no configured ad breaks
CfgEmpty == Cfg(<<>>, Undefined, Undefined)

\* The constructions explored: <<player.config, adsPluginControllers>>.
Scenarios ==
  { <<CfgPrePlayed, <<Bumper, Ima>> >>, <<CfgPrePlayed, <<Ima>> >>,
    <<CfgPrePlayed, <<Bumper>> >>,
    <<CfgMidrolls, <<Ima>> >>,
    <<CfgPreroll, <<Ima>> >>, <<CfgPreroll, <<Bumper>> >>,
    <<CfgEmpty, <<Ima>> >> }

\* The values player.currentTime takes.
Times == 0..MaxTick

\* adBreaksPosition payloads of the plugins' manifest-loaded notifications.
ManifestPayloads == { <<10, -1, 5, 10>> }

Severities == {"CRITICAL", "RECOVERABLE"}

\* ---------------------------------------------------------------- AdsController: pure parts

\* _isBumper
IsBumper(controller) == controller.name = "bumper"

\* this._adsPluginControllers.find(controller => this._isBumper(controller)) exists
HasBumperCtrl(ctrls) == \E i \in DOMAIN ctrls : IsBumper(ctrls[i])

\* this._adsPluginControllers.find(controller => !this._isBumper(controller)) exists
HasAdCtrl(ctrls) == \E i \in DOMAIN ctrls : ~IsBumper(ctrls[i])

\* const playAdsAfterTime of _handleConfiguredAdBreaks
PlayAdsAfterTime(cfg) == OrElse(cfg.playAdsAfterTime, cfg.startTime)

\* played of a break at ingestion
PrePlayedNoLowerBound(position, threshold) == LessEqOpt(position, threshold)

PrePlayed(position, threshold) == -1 < position /\ LessEqOpt(position, threshold)

\* Array.prototype.sort((a, b) => a.position - b.position): a stable insertion.
RECURSIVE InsertByPosition(_, _)
InsertByPosition(sorted, b) ==
  IF sorted = <<>> THEN <<b>>
  ELSE IF Head(sorted).position <= b.position
       THEN <<Head(sorted)>> \o InsertByPosition(Tail(sorted), b)
       ELSE <<b>> \o sorted

RECURSIVE SortByPosition(_)
SortByPosition(s) ==
  IF s = <<>> THEN <<>>
  ELSE InsertByPosition(SortByPosition(SubSeq(s, 1, Len(s) - 1)), s[Len(s)])

\* .filter(...).map(...) of _handleConfiguredAdBreaks, before the sort
FilterMapAdBreaks(cfg) ==
  LET kept == SelectSeq(cfg.adBreaks, LAMBDA b : b.numeric /\ b.ads # 0)
  IN  [i \in DOMAIN kept |->
         [position |-> kept[i].position,
          ads      |-> kept[i].ads,
          played   |-> PrePlayed(kept[i].position, PlayAdsAfterTime(cfg))]]

\* this._configAdBreaks as _handleConfiguredAdBreaks builds it
Ingest(cfg) == SortByPosition(FilterMapAdBreaks(cfg))

Positions(breaks) == [i \in DOMAIN breaks |-> breaks[i].position]

\* String(n) as a sequence of UTF-16 code units
RECURSIVE Digits(_)
Digits(n) == IF n < 10 THEN <<48 + n>> ELSE Digits(n \div 10) \o <<48 + (n % 10)>>

NumberToString(n) == IF n < 0 THEN <<45>> \o Digits(-n) ELSE Digits(n)

\* a < b for strings
RECURSIVE StrLess(_, _)
StrLess(a, b) ==
  IF b = <<>> THEN FALSE
  ELSE IF a = <<>> THEN TRUE
  ELSE IF Head(a) # Head(b) THEN Head(a) < Head(b)
  ELSE StrLess(Tail(a), Tail(b))

\* The comparison Array.prototype.sort() uses when given no comparator.
DefaultSortLess(x, y) == StrLess(NumberToString(x), NumberToString(y))

RECURSIVE InsertDefault(_, _)
InsertDefault(sorted, x) ==
  IF sorted = <<>> THEN <<x>>
  ELSE IF DefaultSortLess(x, Head(sorted)) THEN <<x>> \o sorted
  ELSE <<Head(sorted)>> \o InsertDefault(Tail(sorted), x)

RECURSIVE DefaultSort(_)
DefaultSort(s) ==
  IF s = <<>> THEN <<>>
  ELSE InsertDefault(DefaultSort(SubSeq(s, 1, Len(s) - 1)), s[Len(s)])

\* Array.from(new Set(s)): first occurrences, in order
RECURSIVE Dedupe(_)
Dedupe(s) ==
  IF s = <<>> THEN <<>>
  ELSE LET front == Dedupe(SubSeq(s, 1, Len(s) - 1))
       IN  IF s[Len(s)] \in SeqToSet(front) THEN front ELSE Append(front, s[Len(s)])

\* _onAdManifestLoaded: the new layout
MergeLayout(layout, positions) == DefaultSort(Dedupe(layout \o positions))

\* ---------------------------------------------------------------- AdsController: state

Player == "player"

\* The scheduler's members, as one record.
AdsState ==
  [allAdsCompleted |-> allAdsCompleted, adBreaksLayout |-> adBreaksLayout,
   adBreak |-> adBreak, ad |-> ad, adPlayed |-> adPlayed, snapback |-> snapback,
   configAdBreaks |-> configAdBreaks, adIsLoading |-> adIsLoading,
   reported |-> reported, dispatched |-> dispatched, commanded |-> commanded]

SetAds(s) ==
  /\ allAdsCompleted' = s.allAdsCompleted
  /\ adBreaksLayout' = s.adBreaksLayout
  /\ adBreak' = s.adBreak
  /\ ad' = s.ad
  /\ adPlayed' = s.adPlayed
  /\ snapback' = s.snapback
  /\ configAdBreaks' = s.configAdBreaks
  /\ adIsLoading' = s.adIsLoading
  /\ reported' = s.reported
  /\ dispatched' = s.dispatched
  /\ commanded' = s.commanded

Bump(counts, i) == [counts EXCEPT ![i] = Min(@ + 1, MaxCount)]

\* The index _playAdBreak is given for an on-demand break (no configured break).
OnDemandBreak == 0

\* _playAdBreak(adBreak), adBreak being configured break i or an on-demand break
PlayAdBreakMarksPlayed(s, ctrls, i) ==
  IF i = OnDemandBreak
  THEN IF HasAdCtrl(ctrls) THEN [s EXCEPT !.adIsLoading = TRUE] ELSE s
  ELSE IF HasAdCtrl(ctrls)
       THEN [s EXCEPT !.configAdBreaks[i].played = TRUE, !.adIsLoading = TRUE,
                      !.dispatched = Bump(@, i), !.commanded = Bump(@, i)]
       ELSE [s EXCEPT !.configAdBreaks[i].played = TRUE, !.dispatched = Bump(@, i)]

PlayAdBreak(s, ctrls, i) ==
  IF HasAdCtrl(ctrls)
  THEN IF i = OnDemandBreak
       THEN [s EXCEPT !.adIsLoading = TRUE]
       ELSE [s EXCEPT !.configAdBreaks[i].played = TRUE, !.adIsLoading = TRUE,
                      !.dispatched = Bump(@, i), !.commanded = Bump(@, i)]
  ELSE IF i = OnDemandBreak THEN s ELSE [s EXCEPT !.dispatched = Bump(@, i)]

\* _onAdManifestLoaded
AdManifestLoaded(s, positions) ==
  [s EXCEPT !.adBreaksLayout = MergeLayout(@, positions),
            !.allAdsCompleted = FALSE,
            !.reported = @ \cup SeqToSet(positions)]

\* _initMembers (and the fresh per-session records of what was dispatched)
InitMembers ==
  [allAdsCompleted |-> TRUE, adBreaksLayout |-> <<>>, adBreak |-> Null, ad |-> Null,
   adPlayed |-> FALSE, snapback |-> 0, configAdBreaks |-> <<>>, adIsLoading |-> FALSE,
   reported |-> {}, dispatched |-> <<>>, commanded |-> <<>>]

\* The subscriptions of _addBindings, in order: <<event type, handler>>.
FixedBindings ==
  << <<"AD_MANIFEST_LOADED", "_onAdManifestLoaded">>,
     <<"AD_BREAK_START", "_onAdBreakStart">>,
     <<"AD_LOADED", "_onAdLoaded">>,
     <<"AD_STARTED", "_onAdStarted">>,
     <<"AD_BREAK_END", "_onAdBreakEnd">>,
     <<"ADS_COMPLETED", "_onAdsCompleted">>,
     <<"AD_ERROR", "_onAdError">>,
     <<"PLAYER_RESET", "_reset">>,
     <<"ENDED", "_onEnded">> >>

\* The subscriptions of _handleConfiguredMidrolls.
MidrollBindings ==
  << <<"TIME_UPDATE", "midrollTimeUpdate">>, <<"SEEKED", "midrollSeeked">> >>

RECURSIVE ListenEach(_, _)
ListenEach(em, subs) ==
  IF subs = <<>> THEN em
  ELSE ListenEach(
         EM_listen(em, Binding_new(NumBindings(em) + 1, Player, Head(subs)[1], Head(subs)[2])),
         Tail(subs))

\* _addBindings
AddBindings(em) == ListenEach(em, FixedBindings)

\* first index of seq satisfying Test, or 0 (Array.find / findIndex)
FindIndex(seq, Test(_)) ==
  IF \E i \in DOMAIN seq : Test(seq[i])
  THEN CHOOSE i \in DOMAIN seq : Test(seq[i]) /\ \A j \in 1..(i - 1) : ~Test(seq[j])
  ELSE 0

\* _handleConfiguredPreroll
HandleConfiguredPreroll(s, ctrls) ==
  LET i == FindIndex(s.configAdBreaks, LAMBDA b : b.position = 0 /\ ~b.played)
  IN  IF i # 0 THEN PlayAdBreak(s, ctrls, i) ELSE s

\* _handleConfiguredAdBreaks: the members afterwards
HandleConfiguredAdBreaks(s, cfg, ctrls) ==
  LET breaks == Ingest(cfg)
      zeros  == [i \in DOMAIN breaks |-> 0]
      s1 == [s EXCEPT !.configAdBreaks = breaks, !.dispatched = zeros, !.commanded = zeros]
      positions == Positions(breaks)
      s2 == AdManifestLoaded(s1, positions)
  IN  IF breaks = <<>> THEN s1
      ELSE IF 0 \in SeqToSet(positions) THEN HandleConfiguredPreroll(s2, ctrls) ELSE s2

\* _handleConfiguredAdBreaks: TRUE when it calls _handleConfiguredMidrolls
StartsMidrolls(cfg) == \E i \in DOMAIN Ingest(cfg) : Ingest(cfg)[i].position > 0

\* _init: the registry afterwards
InitBindings(em, cfg) ==
  IF StartsMidrolls(cfg) THEN ListenEach(AddBindings(em), MidrollBindings) ELSE AddBindings(em)

\* _init: the members afterwards
InitAds(cfg, ctrls) == HandleConfiguredAdBreaks(InitMembers, cfg, ctrls)

\* _reset: the registry afterwards
ResetBindings(em, cfg) == InitBindings(EM_removeAll(em), cfg)

\* _reset: the members afterwards
ResetMembers(cfg, ctrls) == InitAds(cfg, ctrls)

\* TRUE when the registry holds a subscription for the event type
Bound(type) == ~bindingMap.isNull /\ MultiMap_get(bindingMap.map, type) # <<>>

\* ---------------------------------------------------------------- AdsController: handlers

\* TIME_UPDATE handler: the indices of the filtered adBreaks
DueAdBreaksIgnoringPlayed(s, t) ==
  {i \in DOMAIN s.configAdBreaks :
     /\ t # 0
     /\ s.configAdBreaks[i].position <= t
     /\ s.configAdBreaks[i].position > s.snapback}

DueAdBreaksIgnoringSnapback(s, t) ==
  {i \in DOMAIN s.configAdBreaks :
     /\ ~s.configAdBreaks[i].played
     /\ t # 0
     /\ s.configAdBreaks[i].position <= t}

DueAdBreaks(s, t) ==
  {i \in DOMAIN s.configAdBreaks :
     /\ ~s.configAdBreaks[i].played
     /\ t # 0
     /\ s.configAdBreaks[i].position <= t
     /\ s.configAdBreaks[i].position > s.snapback}

\* TIME_UPDATE handler: adBreaks[adBreaks.length - 1]
LastAdBreakPicksFirst(due) == CHOOSE i \in due : \A j \in due : i <= j

LastAdBreak(due) == CHOOSE i \in due : \A j \in due : j <= i

\* TIME_UPDATE handler of _handleConfiguredMidrolls
MidrollTimeUpdate(s, ctrls, t, isPaused) ==
  LET due == DueAdBreaks(s, t)
  IN  IF ~isPaused /\ due # {}
      THEN PlayAdBreak([s EXCEPT !.snapback = s.configAdBreaks[LastAdBreak(due)].position],
                       ctrls, LastAdBreak(due))
      ELSE s

\* SEEKED handler: nextPlayedAdBreakIndex (1-based; 0 when findIndex gives -1)
NextPlayedAdBreakIndex(s, t) ==
  FindIndex(s.configAdBreaks, LAMBDA b : b.played /\ t < b.position)

\* SEEKED handler: the condition for resetting snapback
SeekResetsIgnoringPrevious(s, t) == NextPlayedAdBreakIndex(s, t) > 1

SeekResets(s, t) ==
  /\ NextPlayedAdBreakIndex(s, t) > 1
  /\ ~s.configAdBreaks[NextPlayedAdBreakIndex(s, t) - 1].played

\* SEEKED handler of _handleConfiguredMidrolls
MidrollSeeked(s, t) == IF SeekResets(s, t) THEN [s EXCEPT !.snapback = 0] ELSE s

\* the shared condition of _onAdsCompleted and _onAdError
AllCompleteIgnoringDone(s, d) == \A i \in DOMAIN s.configAdBreaks : s.configAdBreaks[i].played

AllComplete(s, d) ==
  /\ \A i \in DOMAIN d : d[i]
  /\ \A i \in DOMAIN s.configAdBreaks : s.configAdBreaks[i].played

\* _onAdsCompleted
AdsCompleted(s, d) == IF AllComplete(s, d) THEN [s EXCEPT !.allAdsCompleted = TRUE] ELSE s

\* _onAdError
AdError(s, d, severity) ==
  LET s1 == [s EXCEPT !.adIsLoading = FALSE]
  IN  IF severity = "CRITICAL" /\ AllComplete(s, d)
      THEN [s1 EXCEPT !.allAdsCompleted = TRUE]
      ELSE s1

\* _handleConfiguredPostroll: the index of the break found, or 0
PostrollIndex(s) == FindIndex(s.configAdBreaks, LAMBDA b : ~b.played /\ b.position = -1)

\* _handleConfiguredPostroll
HandleConfiguredPostrollOnlyItself(s, ctrls) ==
  IF PostrollIndex(s) # 0 THEN PlayAdBreak(s, ctrls, PostrollIndex(s)) ELSE s

HandleConfiguredPostroll(s, ctrls) ==
  IF PostrollIndex(s) # 0
  THEN PlayAdBreak(
         [s EXCEPT !.configAdBreaks =
            [i \in DOMAIN @ |-> [@[i] EXCEPT !.played = TRUE]]],
         ctrls, PostrollIndex(s))
  ELSE s

\* _onEnded: the stage its promise chain waits in first.  With no bumper controller
\* the first promise is Promise.resolve(), whose finally callback runs at once.
EndedChainNoWait(ctrls) == IF HasAdCtrl(ctrls) THEN "primary" ELSE "done"

EndedChain(ctrls) ==
  IF HasBumperCtrl(ctrls) THEN "bumper"
  ELSE IF HasAdCtrl(ctrls) THEN "primary"
  ELSE "done"

\* bumperCompletePromise.finally callback: the stage the chain waits in next
AfterBumper(ctrls) == IF HasAdCtrl(ctrls) THEN "primary" ELSE "done"

\* The chains still waiting, after chain k moved to the given stage.
Advance(cs, k, stage) ==
  IF stage = "done"
  THEN SubSeq(cs, 1, k - 1) \o SubSeq(cs, k + 1, Len(cs))
  ELSE [cs EXCEPT ![k] = stage]

\* _onAdsCompleted: TRUE when it dispatches ALL_ADS_COMPLETED
AdsCompletedEmits(s, d) == AllComplete(s, d)

\* _onAdError: TRUE when it dispatches ALL_ADS_COMPLETED
AdErrorEmits(s, d, severity) == severity = "CRITICAL" /\ AllComplete(s, d) /\ s.adPlayed

\* skipAd: the index of the controller found with controller.active, or 0
ActiveController(active) == FindIndex(active, LAMBDA a : a)

\* skipAd: the controllers skipAd() is called on
SkipAdCommands(active) ==
  IF ActiveController(active) = 0 THEN {} ELSE {ActiveController(active)}

\* playAdNow(adPod): the members afterwards
PlayAdNowDuringAdBreak(s, ctrls) == PlayAdBreak(s, ctrls, OnDemandBreak)

PlayAdNowMembers(s, ctrls) ==
  IF s.adBreak # Null THEN s ELSE PlayAdBreak(s, ctrls, OnDemandBreak)

\* playAdNow(adPod): the number of adController.playAdNow calls it makes
PlayAdNowCommands(s, ctrls) == IF s.adBreak = Null /\ HasAdCtrl(ctrls) THEN 1 ELSE 0

\* ---------------------------------------------------------------- SpecEM: the registry

NoCalls == [tr \in Triples |-> 0]

NoCall == [op |-> "none", target |-> Null, type |-> Null]

AdsIs(s) ==
  /\ allAdsCompleted = s.allAdsCompleted
  /\ adBreaksLayout = s.adBreaksLayout
  /\ adBreak = s.adBreak
  /\ ad = s.ad
  /\ adPlayed = s.adPlayed
  /\ snapback = s.snapback
  /\ configAdBreaks = s.configAdBreaks
  /\ adIsLoading = s.adIsLoading
  /\ reported = s.reported
  /\ dispatched = s.dispatched
  /\ commanded = s.commanded

\* new EventManager(), no scheduler attached
InitEM ==
  /\ bindingMap = EM_new
  /\ addCalls = NoCalls
  /\ removeCalls = NoCalls
  /\ nListens = 0
  /\ lastCall = NoCall
  /\ config = Cfg(<<>>, Undefined, Undefined)
  /\ controllers = <<>>
  /\ done = <<>>
  /\ currentTime = 0
  /\ paused = TRUE
  /\ chains = <<>>
  /\ seekedTo = -1
  /\ AdsIs(InitMembers)

\* EventManager.listen(target, type, listener)
Listen(target, type, listener) ==
  /\ nListens < MaxListens
  /\ nListens' = nListens + 1
  /\ addCalls' = IF EM_listenAttaches(bindingMap)
                 THEN [addCalls EXCEPT ![<<target, type, listener>>] = @ + 1]
                 ELSE addCalls
  /\ bindingMap' = EM_listen(bindingMap, Binding_new(nListens + 1, target, type, listener))
  /\ lastCall' = [op |-> "listen", target |-> target, type |-> type]
  /\ UNCHANGED <<removeCalls, playerVars, adsVars, seekedTo>>

\* EventManager.unlisten(target, type)
Unlisten(target, type) ==
  /\ removeCalls' = [tr \in Triples |->
        removeCalls[tr] + DetachCalls(SeqToSet(EM_unlistenMatches(bindingMap, target, type)))[tr]]
  /\ bindingMap' = EM_unlisten(bindingMap, target, type)
  /\ lastCall' = [op |-> "unlisten", target |-> target, type |-> type]
  /\ UNCHANGED <<addCalls, nListens, playerVars, adsVars, seekedTo>>

\* EventManager.removeAll()
RemoveAll ==
  /\ removeCalls' = [tr \in Triples |->
        removeCalls[tr] + DetachCalls(EM_removeAllBindings(bindingMap))[tr]]
  /\ bindingMap' = EM_removeAll(bindingMap)
  /\ lastCall' = [op |-> "removeAll", target |-> Null, type |-> Null]
  /\ UNCHANGED <<addCalls, nListens, playerVars, adsVars, seekedTo>>

\* EventManager.destroy()
Destroy ==
  /\ removeCalls' = [tr \in Triples |->
        removeCalls[tr] + DetachCalls(EM_removeAllBindings(bindingMap))[tr]]
  /\ bindingMap' = EM_destroy(bindingMap)
  /\ lastCall' = [op |-> "destroy", target |-> Null, type |-> Null]
  /\ UNCHANGED <<addCalls, nListens, playerVars, adsVars, seekedTo>>

NextEM ==
  \/ \E target \in Targets, type \in Types, listener \in Listeners : Listen(target, type, listener)
  \/ \E target \in Targets, type \in Types : Unlisten(target, type)
  \/ RemoveAll
  \/ Destroy

SpecEM == InitEM /\ [][NextEM]_vars

\* ---------------------------------------------------------------- Spec: the scheduler

\* new AdsController(player, adsPluginControllers)
Init ==
  /\ \E sc \in Scenarios : config = sc[1] /\ controllers = sc[2]
  /\ done = [i \in DOMAIN controllers |-> FALSE]
  /\ currentTime = 0
  /\ paused = TRUE
  /\ bindingMap = InitBindings(EM_new, config)
  /\ addCalls = NoCalls
  /\ removeCalls = NoCalls
  /\ nListens = 0
  /\ lastCall = NoCall
  /\ chains = <<>>
  /\ seekedTo = -1
  /\ AdsIs(InitAds(config, controllers))

emFrame == <<addCalls, removeCalls, nListens, lastCall>>

\* AD_MANIFEST_LOADED from a plugin
OnAdManifestLoaded(positions) ==
  /\ Bound("AD_MANIFEST_LOADED")
  /\ SetAds(AdManifestLoaded(AdsState, positions))
  /\ UNCHANGED <<seekedTo, emVars, playerVars, chains>>

\* AD_BREAK_START
OnAdBreakStart ==
  /\ Bound("AD_BREAK_START")
  /\ SetAds([AdsState EXCEPT !.adBreak = "adBreak"])
  /\ UNCHANGED <<seekedTo, emVars, playerVars, chains>>

\* AD_LOADED
OnAdLoaded ==
  /\ Bound("AD_LOADED")
  /\ SetAds([AdsState EXCEPT !.adIsLoading = FALSE, !.ad = "ad"])
  /\ UNCHANGED <<seekedTo, emVars, playerVars, chains>>

\* AD_STARTED
OnAdStarted ==
  /\ Bound("AD_STARTED")
  /\ SetAds([AdsState EXCEPT !.ad = "ad", !.adPlayed = TRUE])
  /\ UNCHANGED <<seekedTo, emVars, playerVars, chains>>

\* AD_BREAK_END
OnAdBreakEnd ==
  /\ Bound("AD_BREAK_END")
  /\ SetAds([AdsState EXCEPT !.adBreak = Null, !.ad = Null])
  /\ UNCHANGED <<seekedTo, emVars, playerVars, chains>>

\* ADS_COMPLETED
OnAdsCompleted ==
  /\ Bound("ADS_COMPLETED")
  /\ SetAds(AdsCompleted(AdsState, done))
  /\ UNCHANGED <<seekedTo, emVars, playerVars, chains>>

\* AD_ERROR
OnAdError(severity) ==
  /\ Bound("AD_ERROR")
  /\ SetAds(AdError(AdsState, done, severity))
  /\ UNCHANGED <<seekedTo, emVars, playerVars, chains>>

\* PLAYER_RESET: _reset
OnPlayerReset ==
  /\ Bound("PLAYER_RESET")
  /\ UNCHANGED <<seekedTo, emFrame, playerVars, chains>>
  /\ bindingMap' = ResetBindings(bindingMap, config)
  /\ SetAds(ResetMembers(config, controllers))

\* TIME_UPDATE with the player at time t
OnTimeUpdate(t) ==
  /\ currentTime' = t
  /\ SetAds(IF Bound("TIME_UPDATE")
            THEN MidrollTimeUpdate(AdsState, controllers, t, paused)
            ELSE AdsState)
  /\ UNCHANGED <<seekedTo, emVars, config, controllers, done, paused, chains>>

\* SEEKED with the player at time t
OnSeeked(t) ==
  /\ currentTime' = t
  /\ SetAds(IF Bound("SEEKED") THEN MidrollSeeked(AdsState, t) ELSE AdsState)
  /\ UNCHANGED <<seekedTo, emVars, config, controllers, done, paused, chains>>

\* ENDED: the one-shot subscription is dropped, then _onEnded runs
OnEnded ==
  /\ Bound("ENDED")
  /\ adIsLoading \/ -1 \notin SeqToSet(adBreaksLayout) \/ Len(chains) < MaxChains
  /\ bindingMap' = EM_unlisten(bindingMap, Player, "ENDED")
  /\ IF adIsLoading
     THEN UNCHANGED <<adsVars>>
     ELSE IF -1 \notin SeqToSet(adBreaksLayout)
          THEN SetAds([AdsState EXCEPT !.allAdsCompleted = TRUE]) /\ UNCHANGED chains
          ELSE /\ SetAds(AdsState)
               /\ chains' = Advance(Append(chains, "new"), Len(chains) + 1,
                                     EndedChain(controllers))
  /\ UNCHANGED <<seekedTo, emFrame, playerVars>>

\* the bumper controller's onPlaybackEnded() promise settles
BumperSettled(k) ==
  /\ chains[k] = "bumper"
  /\ chains' = Advance(chains, k, AfterBumper(controllers))
  /\ SetAds(AdsState)
  /\ UNCHANGED <<seekedTo, emVars, playerVars>>

\* the primary controller's onPlaybackEnded() promise settles
PrimarySettled(k) ==
  /\ chains[k] = "primary"
  /\ chains' = Advance(chains, k, "done")
  /\ SetAds(HandleConfiguredPostroll(AdsState, controllers))
  /\ UNCHANGED <<seekedTo, emVars, playerVars>>

\* playAdNow(adPod)
PlayAdNow ==
  /\ SetAds(PlayAdNowMembers(AdsState, controllers))
  /\ UNCHANGED <<seekedTo, emVars, playerVars, chains>>

\* controller.active of each plugin controller, as skipAd() may find them
ActiveFlags == [DOMAIN controllers -> BOOLEAN]

\* skipAd(): delegates to the active controller; no member of the scheduler changes
SkipAd(active) ==
  /\ SetAds(AdsState)
  /\ UNCHANGED <<seekedTo, emVars, playerVars, chains>>

\* the player is paused or resumed
TogglePaused ==
  /\ paused' = ~paused
  /\ UNCHANGED <<seekedTo, emVars, config, controllers, done, currentTime, adsVars>>

\* a plugin controller's done changes
ToggleDone(i) ==
  /\ done' = [done EXCEPT ![i] = ~@]
  /\ UNCHANGED <<seekedTo, emVars, config, controllers, currentTime, paused, adsVars>>

Next ==
  \/ \E positions \in ManifestPayloads : OnAdManifestLoaded(positions)
  \/ OnAdBreakStart
  \/ OnAdLoaded
  \/ OnAdStarted
  \/ OnAdBreakEnd
  \/ OnAdsCompleted
  \/ \E severity \in Severities : OnAdError(severity)
  \/ OnPlayerReset
  \/ \E t \in Times : OnTimeUpdate(t)
  \/ \E t \in Times : OnSeeked(t)
  \/ OnEnded
  \/ \E k \in DOMAIN chains : BumperSettled(k)
  \/ \E k \in DOMAIN chains : PrimarySettled(k)
  \/ PlayAdNow
  \/ \E active \in ActiveFlags : SkipAd(active)
  \/ TogglePaused
  \/ \E i \in DOMAIN done : ToggleDone(i)

Spec == Init /\ [][Next]_vars

\* ---------------------------------------------------------------- SpecSeek: seeking during playback

\* Playback of the three-midroll configuration with a primary controller: time
\* progresses tick by tick, the viewer seeks anywhere, pauses and resumes.
InitSeek ==
  /\ Init
  /\ config = CfgMidrolls
  /\ controllers = <<Ima>>

\* SEEKED with the player at time t, remembered in seekedTo
SeekedTracked(t) ==
  /\ currentTime' = t
  /\ seekedTo' = t
  /\ SetAds(IF Bound("SEEKED") THEN MidrollSeeked(AdsState, t) ELSE AdsState)
  /\ UNCHANGED <<emVars, config, controllers, done, paused, chains>>

NextSeek ==
  \/ \E t \in Times : SeekedTracked(t)
  \/ \E t \in {currentTime, currentTime + 1} \cap Times : OnTimeUpdate(t)
  \/ TogglePaused

SpecSeek == InitSeek /\ [][NextSeek]_vars

\* ---------------------------------------------------------------- vocabulary of the claims

\* every registered Ad Plugin Controller reports done
EveryControllerDone == \A i \in DOMAIN done : done[i]

\* every configured ad break has played = true
EveryBreakPlayed == \A i \in DOMAIN configAdBreaks : configAdBreaks[i].played

\* the configured breaks _playAdBreak is called with in this step
DispatchedNow == {i \in DOMAIN configAdBreaks : dispatched'[i] > dispatched[i]}

\* the configured breaks a controller is commanded to play in this step
CommandedNow == {i \in DOMAIN configAdBreaks : commanded'[i] > commanded[i]}

\* ---------------------------------------------------------------- C1

\* C1 as stated: in every reachable state allAdsCompleted is true exactly when every
\* controller reports done and every configured break has played = true.
C1_AllAdsCompletedIff == allAdsCompleted = (EveryControllerDone /\ EveryBreakPlayed)

\* C1 amended: allAdsCompleted is not recomputed in every state.  The ads-completed
\* handler and the critical ad-error handler set it to true exactly when every
\* controller reports done and every configured break is played, and otherwise leave
\* it as it is (so while a controller is not done they never set it); a non-critical
\* ad-error leaves it; apart from them it becomes true only by media-ended handled
\* with no ad loading and no -1 in the layout, or by a reset with no configured
\* break, and it becomes false only by a manifest-loaded notification (a reset with
\* configured breaks emits one).
C1_CompletionHandlers ==
  [][ /\ OnAdsCompleted =>
           allAdsCompleted' = (allAdsCompleted \/ (EveryControllerDone /\ EveryBreakPlayed))
      /\ OnAdError("CRITICAL") =>
           allAdsCompleted' = (allAdsCompleted \/ (EveryControllerDone /\ EveryBreakPlayed))
      /\ OnAdError("RECOVERABLE") => allAdsCompleted' = allAdsCompleted
      /\ (~allAdsCompleted /\ allAdsCompleted') =>
           \/ (OnAdsCompleted \/ OnAdError("CRITICAL")) /\ EveryControllerDone /\ EveryBreakPlayed
           \/ OnEnded /\ ~adIsLoading /\ -1 \notin SeqToSet(adBreaksLayout)
           \/ OnPlayerReset /\ configAdBreaks' = <<>>
      /\ (allAdsCompleted /\ ~allAdsCompleted') =>
           \/ \E positions \in ManifestPayloads : OnAdManifestLoaded(positions)
           \/ OnPlayerReset /\ configAdBreaks' # <<>>
    ]_vars

\* the completion handlers have set allAdsCompleted: configured breaks exist (so no
\* reset set it) and the layout holds -1 (so media-ended did not)
C1_Witness ==
  /\ allAdsCompleted
  /\ configAdBreaks # <<>>
  /\ -1 \in SeqToSet(adBreaksLayout)
  /\ EveryControllerDone /\ EveryBreakPlayed
  /\ Len(controllers) = 2

\* ---------------------------------------------------------------- C2

\* C2: once removeAll() has run on a registry that was not destroyed, the registry
\* holds zero bindings and every addEventListener call listen made is matched by
\* exactly one removeEventListener call for the same source, type and listener;
\* running removeAll() again would change nothing and detach nothing.
C2_RemoveAllDetachesOnce ==
  (lastCall.op = "removeAll" /\ ~bindingMap.isNull) =>
     /\ NumBindings(bindingMap) = 0
     /\ removeCalls = addCalls
     /\ EM_removeAll(bindingMap) = bindingMap
     /\ DetachCalls(EM_removeAllBindings(bindingMap)) = NoCalls

\* removeAll() ran after three listens, two of them for one source, type and listener
C2_Witness ==
  /\ lastCall.op = "removeAll"
  /\ ~bindingMap.isNull
  /\ nListens = MaxListens
  /\ \E tr \in Triples : addCalls[tr] = 2 /\ removeCalls[tr] = 2

\* ---------------------------------------------------------------- C3

\* C3 as stated: after destroy() no call attaches a listener to a source or detaches
\* one.
C3_DestroyedIsInert ==
  [][bindingMap.isNull => (addCalls' = addCalls /\ removeCalls' = removeCalls)]_vars

\* ---------------------------------------------------------------- C4

\* the bindings of a type stored by the registry
BindingsOf(em, type) == MultiMap_get(em.map, type)

\* C4: unlisten(source, type) on a live registry removes from the type's list
\* exactly the bindings of that source, keeping the others in their order, leaves
\* the lists of the other types alone, calls removeEventListener once for each
\* removed binding and for nothing else, and attaches nothing; with no matching
\* binding the registry and the attachments are unchanged.
C4_UnlistenRemovesMatching ==
  [][ (lastCall'.op = "unlisten" /\ ~bindingMap.isNull) =>
        LET target == lastCall'.target
            type == lastCall'.type
            matching == {b \in SeqToSet(BindingsOf(bindingMap, type)) : b.target = target}
        IN  /\ ~bindingMap'.isNull
            /\ BindingsOf(bindingMap', type) =
                 SelectSeq(BindingsOf(bindingMap, type), LAMBDA b : b \notin matching)
            /\ \A other \in Types \ {type} :
                 BindingsOf(bindingMap', other) = BindingsOf(bindingMap, other)
            /\ \A tr \in Triples :
                 removeCalls'[tr] = removeCalls[tr] +
                   Cardinality({b \in matching : <<b.target, b.type, b.listener>> = tr})
            /\ addCalls' = addCalls
            /\ matching = {} => (bindingMap' = bindingMap /\ removeCalls' = removeCalls)
    ]_vars

\* unlisten removed two bindings added for one source and type and kept a third
C4_Witness ==
  /\ lastCall.op = "unlisten"
  /\ nListens = MaxListens
  /\ NumBindings(bindingMap) = 1
  /\ \E tr \in Triples :
       /\ tr[1] = lastCall.target /\ tr[2] = lastCall.type
       /\ removeCalls[tr] = 2

\* ---------------------------------------------------------------- C5

Position(i) == configAdBreaks[i].position

\* the configured breaks with played = false and snapback < position <= t
Due(t) ==
  {i \in DOMAIN configAdBreaks :
     ~configAdBreaks[i].played /\ snapback < Position(i) /\ Position(i) <= t}

\* C5: a time-progress notification received while not paused with a non-empty set
\* of due breaks dispatches exactly one break, one of greatest position in the set,
\* sets snapback to that position and leaves the other due breaks unplayed; with an
\* empty set, or while paused, it dispatches nothing and leaves snapback unchanged.
C5_GreatestDueBreakWins ==
  [][ OnTimeUpdate(currentTime') =>
        IF ~paused /\ Due(currentTime') # {}
        THEN \E i \in Due(currentTime') :
               /\ \A j \in Due(currentTime') : Position(j) <= Position(i)
               /\ DispatchedNow = {i}
               /\ snapback' = Position(i)
               /\ \A j \in Due(currentTime') \ {i} : ~configAdBreaks'[j].played
        ELSE /\ DispatchedNow = {}
             /\ snapback' = snapback
             /\ configAdBreaks' = configAdBreaks
    ]_vars

\* one jump of currentTime passed two unplayed midrolls: the later one was
\* dispatched and snapback is its position, the earlier one is still unplayed
C5_Witness ==
  \E i, j \in DOMAIN configAdBreaks :
    /\ 0 < Position(i) /\ Position(i) < Position(j)
    /\ ~configAdBreaks[i].played /\ dispatched[i] = 0
    /\ configAdBreaks[j].played /\ dispatched[j] = 1
    /\ snapback = Position(j)
    /\ \A k \in DOMAIN configAdBreaks : k # j => dispatched[k] = 0

\* ---------------------------------------------------------------- C6

\* there is a played configured break after time t, and the break stored just
\* before the first such break is not played
UnplayedBeforeNextPlayed(t) ==
  \E n \in DOMAIN configAdBreaks :
    /\ configAdBreaks[n].played /\ Position(n) > t
    /\ \A m \in 1..(n - 1) : ~(configAdBreaks[m].played /\ Position(m) > t)
    /\ n - 1 \in DOMAIN configAdBreaks
    /\ ~configAdBreaks[n - 1].played

\* a seek-completed resets snapback exactly in that case, changes no played flag
\* and dispatches nothing
SeekCorrection ==
  OnSeeked(currentTime') =>
    /\ snapback' = IF UnplayedBeforeNextPlayed(currentTime') THEN 0 ELSE snapback
    /\ configAdBreaks' = configAdBreaks
    /\ DispatchedNow = {} /\ CommandedNow = {}

\* snapback was reset by a seek after a midroll had been dispatched
Rearmed == snapback = 0 /\ \E j \in DOMAIN configAdBreaks : Position(j) > 0 /\ dispatched[j] > 0

\* the unplayed midrolls behind a midroll that was dispatched
SkippedMidrolls ==
  {i \in DOMAIN configAdBreaks :
     /\ Position(i) > 0 /\ ~configAdBreaks[i].played
     /\ \E j \in DOMAIN configAdBreaks : dispatched[j] > 0 /\ Position(i) < Position(j)}

\* C6 as stated: the seek correction, and after the reset every skipped midroll is
\* dispatched by the next unpaused time-progress that reaches its position.
C6_RearmedBreakFires ==
  [][ /\ SeekCorrection
      /\ (Rearmed /\ ~paused /\ OnTimeUpdate(currentTime')) =>
           \A i \in SkippedMidrolls : Position(i) <= currentTime' => i \in DispatchedNow
    ]_vars

\* C6 amended: the seek correction as stated; after the reset, the next unpaused
\* time-progress dispatches a skipped midroll whose position it reaches only if no
\* other unplayed break stored after it is due as well: of the due breaks the one
\* stored last (of greatest position) is dispatched, and none of the others.
C6_RearmedLastDueFires ==
  [][ /\ SeekCorrection
      /\ (Rearmed /\ ~paused /\ OnTimeUpdate(currentTime')) =>
           \A i \in SkippedMidrolls : Position(i) <= currentTime' =>
             (i \in DispatchedNow <=>
                \A j \in Due(currentTime') : j <= i)
    ]_vars

\* a skipped midroll was dispatched after a later midroll: snapback is its position,
\* below the position of a midroll dispatched before the seek
C6_Witness ==
  \E i, j \in DOMAIN configAdBreaks :
    /\ 0 < Position(i) /\ Position(i) < Position(j)
    /\ dispatched[i] = 1 /\ dispatched[j] = 1
    /\ snapback = Position(i)

\* ---------------------------------------------------------------- C7

\* C7 as stated, with a primary controller registered: when the last seek-completed
\* moved currentTime below the position of an unplayed midroll, an unpaused
\* time-progress that reaches that position, and reaches no unplayed break of
\* greater position, dispatches the break.
C7_SeekNeverSuppresses ==
  [][ (seekedTo >= 0 /\ ~paused /\ HasAdCtrl(controllers) /\ OnTimeUpdate(currentTime')) =>
        \A i \in DOMAIN configAdBreaks :
          ( /\ Position(i) > 0 /\ ~configAdBreaks[i].played
            /\ seekedTo < Position(i) /\ Position(i) <= currentTime'
            /\ \A j \in DOMAIN configAdBreaks :
                 (~configAdBreaks[j].played /\ Position(j) <= currentTime') =>
                   Position(j) <= Position(i) )
            => i \in DispatchedNow
    ]_vars

\* ---------------------------------------------------------------- C8

NumIn(stage) == Len(SelectSeq(chains, LAMBDA c : c = stage))

NumInNext(stage) == Len(SelectSeq(chains', LAMBDA c : c = stage))

\* C8: a chain comes to wait for the primary controller's onPlaybackEnded only in a
\* step in which a bumper future settles, or at media-ended when no bumper
\* controller exists; and the postroll break is dispatched only in a step in which
\* a primary future settles, by the chain that waited for it.
C8_PostrollStagesInOrder ==
  [][ /\ NumInNext("primary") > NumIn("primary") =>
           \/ NumInNext("bumper") < NumIn("bumper")
           \/ ~HasBumperCtrl(controllers) /\ OnEnded
      /\ NumInNext("bumper") > NumIn("bumper") => OnEnded
      /\ (\E i \in DispatchedNow : Position(i) = -1) =>
           \E k \in DOMAIN chains : chains[k] = "primary" /\ PrimarySettled(k)
    ]_vars

\* with a bumper and a primary controller the postroll was commanded and no chain
\* waits any more
C8_Witness ==
  /\ HasBumperCtrl(controllers) /\ HasAdCtrl(controllers)
  /\ \E i \in DOMAIN configAdBreaks : Position(i) = -1 /\ commanded[i] = 1
  /\ chains = <<>>

\* ---------------------------------------------------------------- C9

\* the threshold of _handleConfiguredAdBreaks: advertising.playAdsAfterTime, or
\* playback.startTime when that is 0 or not set
Threshold == PlayAdsAfterTime(config)

\* the entries of config.advertising.adBreaks that are ingested
Ingested(cfg) == {i \in DOMAIN cfg.adBreaks : cfg.adBreaks[i].numeric /\ cfg.adBreaks[i].ads > 0}

\* C9: the configured breaks are stored in ascending order of position, one for each
\* ingested entry; at ingestion a break is played exactly when its position lies in
\* [0, playAdsAfterTime]; and a break pre-played at ingestion is never dispatched
\* or commanded in the session.  With positions {0, 10, 20, -1} and
\* playAdsAfterTime = 5 only break 0 is pre-played.
C9_IngestionPrePlays ==
  /\ \A i, j \in DOMAIN configAdBreaks : i < j => Position(i) <= Position(j)
  /\ Len(configAdBreaks) = Cardinality(Ingested(config))
  /\ \A p \in {config.adBreaks[i].position : i \in Ingested(config)} :
       Cardinality({i \in DOMAIN configAdBreaks : Position(i) = p}) =
       Cardinality({i \in Ingested(config) : config.adBreaks[i].position = p})
  /\ \A i \in DOMAIN configAdBreaks :
       LET prePlayed == Threshold # Undefined /\ 0 <= Position(i) /\ Position(i) <= Threshold[1]
       IN  /\ Ingest(config)[i].position = Position(i)
           /\ Ingest(config)[i].played = prePlayed
           /\ prePlayed => (configAdBreaks[i].played /\ dispatched[i] = 0 /\ commanded[i] = 0)
  /\ Ingest(Cfg(<<B(0), B(10), B(20), B(-1)>>, Num(5), Undefined)) =
       << [position |-> -1, ads |-> 1, played |-> FALSE],
          [position |-> 0, ads |-> 1, played |-> TRUE],
          [position |-> 10, ads |-> 1, played |-> FALSE],
          [position |-> 20, ads |-> 1, played |-> FALSE] >>

\* a session with a pre-played preroll in which the midroll and the postroll were
\* commanded
C9_Witness ==
  /\ \E i \in DOMAIN configAdBreaks :
       Position(i) = 0 /\ Ingest(config)[i].played /\ dispatched[i] = 0
  /\ \E i \in DOMAIN configAdBreaks : Position(i) > 0 /\ commanded[i] = 1
  /\ \E i \in DOMAIN configAdBreaks : Position(i) = -1 /\ commanded[i] = 1

\* ---------------------------------------------------------------- C10

\* getAdBreaksLayout()
getAdBreaksLayout == adBreaksLayout

\* C10 as stated: getAdBreaksLayout() returns the positions reported since the last
\* (re)initialization, each once, in ascending numeric order.
C10_LayoutSortedNumerically ==
  /\ SeqToSet(getAdBreaksLayout) = reported
  /\ Len(getAdBreaksLayout) = Cardinality(reported)
  /\ \A i, j \in DOMAIN getAdBreaksLayout : i < j => getAdBreaksLayout[i] < getAdBreaksLayout[j]

\* ---------------------------------------------------------------- C11

\* C11: in every step other than a session reset the configured breaks keep their
\* positions, a break that is played stays played, and a break is commanded to a
\* controller only if it was unplayed and had not been commanded since the session
\* began; the command marks it played.
C11_PlayedOnceCommandedOnce ==
  [][ \/ /\ Len(configAdBreaks') = Len(configAdBreaks)
         /\ \A i \in DOMAIN configAdBreaks :
              /\ configAdBreaks'[i].position = Position(i)
              /\ configAdBreaks[i].played => configAdBreaks'[i].played
         /\ \A i \in CommandedNow :
              /\ commanded[i] = 0 /\ commanded'[i] = 1
              /\ ~configAdBreaks[i].played /\ configAdBreaks'[i].played
      \/ OnPlayerReset
    ]_vars

\* a midroll commanded once was re-armed by a seek and passed again by the playhead:
\* it is still played and was not commanded again
C11_Witness ==
  \E i \in DOMAIN configAdBreaks :
    /\ commanded[i] = 1 /\ configAdBreaks[i].played
    /\ snapback < Position(i) /\ Position(i) <= currentTime
    /\ snapback > 0
    /\ ~paused

\* ---------------------------------------------------------------- C12

\* C12: in every reachable state, skipAd() finding no controller active calls
\* skipAd on no controller (and no member changes whatever it finds), and
\* playAdNow(adPod) with a runtime ad break set leaves every member as it is and
\* calls playAdNow on no controller.
C12_SkipAdAndPlayAdNowNoOps ==
  /\ \A active \in ActiveFlags :
       (\A i \in DOMAIN active : ~active[i]) => SkipAdCommands(active) = {}
  /\ adBreak # Null =>
       /\ PlayAdNowMembers(AdsState, controllers) = AdsState
       /\ PlayAdNowCommands(AdsState, controllers) = 0

\* a runtime ad break is set while no ad is loading and a primary controller exists:
\* outside the break playAdNow would command it
C12_Witness ==
  /\ adBreak # Null
  /\ ~adIsLoading
  /\ HasAdCtrl(controllers) /\ HasBumperCtrl(controllers)
  /\ PlayAdBreak(AdsState, controllers, OnDemandBreak) # AdsState

\* ---------------------------------------------------------------- C13

\* the event types the scheduler subscribes to for a configuration
SubscribedTypes(cfg) ==
  {FixedBindings[i][1] : i \in DOMAIN FixedBindings}
    \cup (IF StartsMidrolls(cfg) THEN {MidrollBindings[i][1] : i \in DOMAIN MidrollBindings}
          ELSE {})

\* C13: in every reachable state a session reset would unlisten every binding the
\* registry holds, and leave the members and the registry as a fresh initialization
\* from the same configuration leaves them: one binding for each subscribed event
\* type and no other.
C13_ResetIsFreshInit ==
  Bound("PLAYER_RESET") =>
    LET held == EM_removeAllBindings(bindingMap)
        after == ResetBindings(bindingMap, config)
    IN  /\ held = MultiMap_getAll(bindingMap.map)
        /\ \A b \in held : Binding_detaches(b)
        /\ NumBindings(EM_removeAll(bindingMap)) = 0
        /\ ResetMembers(config, controllers) = InitAds(config, controllers)
        /\ after = InitBindings(EM_new, config)
        /\ NumBindings(after) = Cardinality(SubscribedTypes(config))
        /\ \A type \in SubscribedTypes(config) : Len(BindingsOf(after, type)) = 1

\* a reset came after media-ended had started a chain and a midroll had played: the
\* chain still waits, ENDED is subscribed again, the members are those of a fresh
\* initialization
C13_Witness ==
  /\ chains # <<>>
  /\ Bound("ENDED")
  /\ configAdBreaks # <<>>
  /\ AdsState = InitAds(config, controllers)
  /\ currentTime > 0

\* ---------------------------------------------------------------- C14

\* with no non-bumper controller: nothing was commanded, no ad is loading, every
\* break dispatched is still unplayed and playAdNow changes nothing
Abandoned ==
  /\ \A i \in DOMAIN configAdBreaks :
       /\ commanded[i] = 0
       /\ dispatched[i] > 0 => ~configAdBreaks[i].played
  /\ ~adIsLoading
  /\ PlayAdNowMembers(AdsState, controllers) = AdsState
  /\ PlayAdNowCommands(AdsState, controllers) = 0

\* C14: with no non-bumper controller registered a dispatch commands no controller,
\* leaves the break unplayed and adIsLoading false; and a time-progress dispatches
\* only a break whose position is above snapback and raises snapback to that
\* position, so that time-progress alone never dispatches the break again.
C14_NoControllerAbandons ==
  [][ ~HasAdCtrl(controllers) =>
        /\ Abandoned /\ Abandoned'
        /\ OnTimeUpdate(currentTime') =>
             /\ snapback' >= snapback
             /\ \A i \in DispatchedNow :
                  /\ dispatched[i] = 0
                  /\ snapback < Position(i) /\ snapback' = Position(i)
    ]_vars

\* with only a bumper controller a midroll was dispatched and left unplayed, and the
\* playhead has moved on past it
C14_Witness ==
  /\ ~HasAdCtrl(controllers)
  /\ ~paused
  /\ \E i \in DOMAIN configAdBreaks :
       /\ Position(i) > 0 /\ dispatched[i] = 1 /\ ~configAdBreaks[i].played
       /\ snapback = Position(i) /\ currentTime > Position(i)

\* ---------------------------------------------------------------- C15

\* C15 as stated: the ads-completed handler emits all-ads-completed only when its
\* handling flips allAdsCompleted from false to true; received while allAdsCompleted
\* is already true it emits nothing.
C15_EmittedOnlyOnFlip ==
  (Bound("ADS_COMPLETED") /\ AdsCompletedEmits(AdsState, done)) =>
     (~allAdsCompleted /\ AdsCompleted(AdsState, done).allAdsCompleted)

\* ---------------------------------------------------------------- C16

\* C16 as stated: an ad-error that is not CRITICAL leaves every member of the
\* scheduler unchanged and emits nothing, so that an ad that was loading is still
\* loading (and media-ended still suppressed) after it.
C16_NonCriticalErrorIgnored ==
  [][ OnAdError("RECOVERABLE") =>
        /\ ~AdErrorEmits(AdsState, done, "RECOVERABLE")
        /\ UNCHANGED adsVars
        /\ adIsLoading => adIsLoading'
    ]_vars

\* ---------------------------------------------------------------- C17

\* the configured breaks at position -1 that _playAdBreak is called with in this step
PostrollDispatchedNow == {i \in DispatchedNow : Position(i) = -1}

\* C17: the break at position -1 is dispatched only by the settling of the primary
\* future of a chain, never by a time-progress, seek-completed or manifest-loaded
\* notification; a chain is started only by a media-ended notification handled
\* while adIsLoading is false; and a media-ended notification handled while
\* adIsLoading is true starts no chain and changes no member.
C17_PostrollOnlyFromEnded ==
  [][ /\ PostrollDispatchedNow # {} =>
           /\ \E k \in DOMAIN chains : PrimarySettled(k)
           /\ ~OnTimeUpdate(currentTime')
           /\ ~OnSeeked(currentTime')
           /\ ~\E positions \in ManifestPayloads : OnAdManifestLoaded(positions)
      /\ Len(chains') > Len(chains) => (OnEnded /\ ~adIsLoading)
      /\ (adIsLoading /\ OnEnded) => UNCHANGED adsVars
    ]_vars

\* without a bumper controller the postroll was dispatched after media-ended: the
\* one-shot ENDED subscription is used up and no chain waits
C17_Witness ==
  /\ ~HasBumperCtrl(controllers)
  /\ ~Bound("ENDED")
  /\ chains = <<>>
  /\ \E i \in DOMAIN configAdBreaks : Position(i) = -1 /\ dispatched[i] = 1

\* ---------------------------------------------------------------- C18

\* the postroll break was dispatched since the session began
PostrollDispatched ==
  \E i \in DOMAIN configAdBreaks : Position(i) = -1 /\ dispatched[i] > 0

\* C18: the step that dispatches the postroll leaves every configured break
\* played; while the postroll has been dispatched in the session every configured
\* break is played, and no step dispatches or commands a configured break.
C18_PostrollMarksAllPlayed ==
  [][ /\ PostrollDispatchedNow # {} => EveryBreakPlayed'
      /\ PostrollDispatched => (EveryBreakPlayed /\ DispatchedNow = {} /\ CommandedNow = {})
      /\ PostrollDispatched' => EveryBreakPlayed'
    ]_vars

\* after the postroll an unpaused playhead stands past a midroll that was never
\* dispatched and is marked played
C18_Witness ==
  /\ PostrollDispatched
  /\ ~paused
  /\ \E i \in DOMAIN configAdBreaks :
       /\ Position(i) > 0 /\ dispatched[i] = 0 /\ configAdBreaks[i].played
       /\ snapback < Position(i) /\ Position(i) <= currentTime

\* ---------------------------------------------------------------- C19

\* C19 as stated: while the ENDED subscription of the session is still held (no
\* media-ended was received since the last reset), the settling of a future of a
\* chain started before the reset dispatches no break and marks no break played.
C19_StaleChainHasNoEffect ==
  [][ \A k \in DOMAIN chains :
        (Bound("ENDED") /\ PrimarySettled(k)) =>
          (DispatchedNow = {} /\ configAdBreaks' = configAdBreaks)
    ]_vars

\* ---------------------------------------------------------------- C20

\* C20 as stated: while a dispatched break is loading or a runtime ad break is set,
\* no step commands a configured break to a controller and playAdNow(adPod)
\* commands none.
C20_BreaksNeverOverlap ==
  [][ (adIsLoading \/ adBreak # Null) =>
        /\ CommandedNow = {}
        /\ PlayAdNowCommands(AdsState, controllers) = 0
    ]_vars

====
